---- MODULE Spec2Model ----
(***************************************************************************)
(* Model of src/lib/content.js: the content-path pipeline                  *)
(* (parseCandidateFiles -> parseContentPath -> resolveRelativePaths ->     *)
(* resolvePathSymlinks) and the change tracker (resolvedChangedContent,    *)
(* resolveChangedFiles) with its file -> mtime watermark table.            *)
(*                                                                         *)
(* Strings are sequences of tokens: the characters that matter to the code *)
(* ("/", "\\", "!", "*", ".") are tokens of their own, a run of ordinary   *)
(* characters is one atom ("r", "t", "a", ".css").                         *)
(***************************************************************************)
EXTENDS Integers, Sequences, FiniteSets, TLC

\* ------------------------------------------------------------------ bounds

\* Largest modification timestamp a file takes (0 stands for "no such file").
MaxTime == 2

\* Longest content.files list a configuration declares.
MaxEntries == 2

\* Most changes the disk takes from outside while one call is running.
MaxRaces == 1

\* ------------------------------------------------------------- strings

SLASH == "/"
BACKSLASH == "\\"
BANG == "!"
STAR == "*"
DOT == "."

\* The concatenation of a sequence of strings or of lists (what
\* Array.prototype.flatMap does to the lists its callback returns).
RECURSIVE Concat(_)
Concat(ss) == IF ss = <<>> THEN <<>> ELSE Head(ss) \o Concat(Tail(ss))

\* String.prototype.startsWith for a one-character prefix.
StartsWith(s, tok) == Len(s) >= 1 /\ s[1] = tok

\* s.substr(n): the string from offset n (0-based) to its end.
Substr(s, n) == IF n >= Len(s) THEN <<>> ELSE SubSeq(s, n + 1, Len(s))

\* The segments of a string between its "/" separators, "" included.
RECURSIVE SplitFrom(_, _, _)
SplitFrom(s, i, cur) ==
  IF i > Len(s) THEN <<cur>>
  ELSE IF s[i] = SLASH THEN <<cur>> \o SplitFrom(s, i + 1, <<>>)
  ELSE SplitFrom(s, i + 1, Append(cur, s[i]))

Split(s) == SplitFrom(s, 1, <<>>)

\* Array.prototype.join("/").
RECURSIVE Join(_)
Join(segs) ==
  IF segs = <<>> THEN <<>>
  ELSE IF Len(segs) = 1 THEN Head(segs)
  ELSE Head(segs) \o <<SLASH>> \o Join(Tail(segs))

\* Index of the last "/" of s at or before i, 0 when there is none.
RECURSIVE LastSlash(_, _)
LastSlash(s, i) ==
  IF i = 0 THEN 0 ELSE IF s[i] = SLASH THEN i ELSE LastSlash(s, i - 1)

\* normalize-path: backslashes become slashes, runs of separators collapse to
\* one, trailing separators are stripped (a lone "/" stays).
RECURSIVE CollapseFrom(_, _)
CollapseFrom(s, i) ==
  IF i > Len(s) THEN <<>>
  ELSE LET c == IF s[i] = BACKSLASH THEN SLASH ELSE s[i]
           rest == CollapseFrom(s, i + 1)
       IN IF c = SLASH /\ rest # <<>> /\ rest[1] = SLASH THEN rest
          ELSE <<c>> \o rest

normalizePath(s) ==
  LET c == CollapseFrom(s, 1)
  IN IF Len(c) > 1 /\ c[Len(c)] = SLASH THEN SubSeq(c, 1, Len(c) - 1) ELSE c

\* is-glob (strict): a leading "!" or any "*" makes the string a glob.
isGlob(s) == StartsWith(s, BANG) \/ \E i \in 1..Len(s) : s[i] = STAR

\* path.posix.dirname.
dirname(s) ==
  LET i == LastSlash(s, Len(s))
  IN IF i = 0 THEN <<DOT>> ELSE IF i = 1 THEN <<SLASH>> ELSE SubSeq(s, 1, i - 1)

\* glob-parent: drop trailing path parts while what is left is still a glob.
RECURSIVE StripGlobby(_)
StripGlobby(s) == IF isGlob(s) THEN StripGlobby(dirname(s)) ELSE s

globParent(s) == StripGlobby(dirname(s))

\* util/parseGlob: the non-glob prefix and the remaining pattern.
parseGlob(pattern) ==
  LET base == globParent(pattern)
      g0 == IF base # <<DOT>>
            THEN LET g == Substr(pattern, Len(base))
                 IN IF StartsWith(g, SLASH) THEN Substr(g, 1) ELSE g
            ELSE pattern
      g1 == IF Len(g0) >= 2 /\ g0[1] = DOT /\ g0[2] = SLASH THEN Substr(g0, 2) ELSE g0
      g2 == IF StartsWith(g1, SLASH) THEN Substr(g1, 1) ELSE g1
  IN [base |-> base, glob |-> g2]

IsAbsolute(s) == StartsWith(s, SLASH)

\* path.resolve(...from, to): to itself when absolute, else joined to the
\* root; "." and empty segments are dropped, the result is absolute.
RECURSIVE DropDots(_)
DropDots(segs) ==
  IF segs = <<>> THEN <<>>
  ELSE IF Head(segs) = <<DOT>> \/ Head(segs) = <<>> THEN DropDots(Tail(segs))
  ELSE <<Head(segs)>> \o DropDots(Tail(segs))

pathResolve(root, to) ==
  LET full == IF IsAbsolute(to) THEN to ELSE root \o <<SLASH>> \o to
  IN <<SLASH>> \o Join(DropDots(Split(full)))

\* path.extname(p).slice(1): the suffix of the last segment from its last
\* "." on, without the dot; "" when the segment has none or only leads with it.
ExtAtoms == {".css", ".html", ".js"}
SliceDot == [e \in ExtAtoms |->
               IF e = ".css" THEN "css" ELSE IF e = ".html" THEN "html" ELSE "js"]

extnameSlice1(p) ==
  LET n == Len(p)
  IN IF n >= 2 /\ p[n] \in ExtAtoms /\ p[n - 1] # SLASH THEN SliceDot[p[n]] ELSE ""

\* micromatch within one path segment: "*" matches any run of characters.
RECURSIVE MatchSeg(_, _)
MatchSeg(pat, seg) ==
  IF pat = <<>> THEN seg = <<>>
  ELSE IF Head(pat) = STAR
       THEN MatchSeg(Tail(pat), seg) \/ (seg # <<>> /\ MatchSeg(pat, Tail(seg)))
       ELSE seg # <<>> /\ Head(pat) = Head(seg) /\ MatchSeg(Tail(pat), Tail(seg))

\* micromatch over whole paths: a "**" segment matches any number of segments.
RECURSIVE MatchSegs(_, _)
MatchSegs(pats, segs) ==
  IF pats = <<>> THEN segs = <<>>
  ELSE IF Head(pats) = <<STAR, STAR>>
       THEN MatchSegs(Tail(pats), segs) \/ (segs # <<>> /\ MatchSegs(pats, Tail(segs)))
       ELSE segs # <<>> /\ MatchSeg(Head(pats), Head(segs))
            /\ MatchSegs(Tail(pats), Tail(segs))

GlobMatch(pattern, p) == MatchSegs(Split(pattern), Split(p))

\* ---------------------------------------------------------- the file system

\* The process's working directory, a real directory.
Cwd == <<SLASH, "r">>
\* A real directory, and a symbolic link to it.
TargetDir == <<SLASH, "r", SLASH, "t">>
LinkPath == <<SLASH, "r", SLASH, "l">>
RealDirs == {<<SLASH>>, Cwd, TargetDir}

\* The regular files that may exist, by their real paths.
FileIds == {"a", "b"}
RealPathOf == [f \in FileIds |->
                 IF f = "a" THEN TargetDir \o <<SLASH, "a", ".css">>
                 ELSE Cwd \o <<SLASH, "b", ".html">>]

\* Every path under which a regular file can be seen (through the link too).
VisiblePaths == {RealPathOf[f] : f \in FileIds} \cup {LinkPath \o <<SLASH, "a", ".css">>}

Times == 1..MaxTime
NoFile == 0
Null == <<"null">>

VARIABLES
  fs,               \* the disk: file id -> modification time, NoFile when absent
  context,          \* userConfigPath and tailwindConfig (flag, content.files)
  candidateFiles,   \* the ContentPath list parseCandidateFiles returned
  fileModifiedMap,  \* the caller's Map<string, number>: a function on its keys
  pc,               \* "idle", or the position of the running call
  files,            \* resolveChangedFiles: the glob results not yet visited
  changedFiles,     \* resolveChangedFiles: the Set, in insertion order
  changedContent,   \* resolvedChangedContent: the list built so far
  ret,              \* what the last call returned or threw
  hist,             \* what the running or last call saw (for the properties)
  pipe              \* parseContentPath applied to one entry: its locals

vars == <<fs, context, candidateFiles, fileModifiedMap, pc, files,
          changedFiles, changedContent, ret, hist, pipe>>

FileOf(p) == CHOOSE f \in FileIds : RealPathOf[f] = p
IsFile(p) == \E f \in FileIds : RealPathOf[f] = p /\ fs[f] # NoFile

\* fs.realpathSync: walk the path, following the link; fails on a missing part.
RECURSIVE Walk(_, _)
Walk(cur, segs) ==
  IF segs = <<>> THEN [ok |-> TRUE, path |-> cur]
  ELSE LET joined == IF cur = <<SLASH>> THEN cur \o Head(segs)
                     ELSE cur \o <<SLASH>> \o Head(segs)
           next == IF joined = LinkPath THEN TargetDir ELSE joined
       IN IF next \in RealDirs THEN Walk(next, Tail(segs))
          ELSE IF IsFile(next) /\ Tail(segs) = <<>> THEN [ok |-> TRUE, path |-> next]
          ELSE [ok |-> FALSE, path |-> Null]

realpathSync(p) == Walk(<<SLASH>>, DropDots(Split(p)))

\* fs.statSync(p).mtimeMs, and whether statSync (or readFileSync) succeeds.
CanStat(p) == LET r == realpathSync(p) IN r.ok /\ IsFile(r.path)
mtimeMs(p) == fs[FileOf(realpathSync(p).path)]

\* fs.readFileSync(p, 'utf8'): the text on disk, which changes with each write.
readFileSync(p) == [file |-> FileOf(realpathSync(p).path), version |-> mtimeMs(p)]

\* fast-glob: the files on disk some positive pattern matches and no negative
\* pattern ("!" stripped) matches.
fastGlobSync(patterns) ==
  LET idx == 1..Len(patterns)
      pos == {patterns[i] : i \in {j \in idx : ~StartsWith(patterns[j], BANG)}}
      neg == {Substr(patterns[i], 1) : i \in {j \in idx : StartsWith(patterns[j], BANG)}}
  IN {p \in VisiblePaths :
        /\ CanStat(p)
        /\ \E q \in pos : GlobMatch(q, p)
        /\ ~\E q \in neg : GlobMatch(q, p)}

\* ------------------------------------------------- the content-path pipeline

Undefined == "undefined"

\* A content.files entry that is a path or glob string.
StringEntry(s) == [str |-> s, raw |-> Undefined, extension |-> Undefined]
\* A content.files entry that is a { raw, extension } record.
RawEntry(raw, extension) == [str |-> Null, raw |-> raw, extension |-> extension]

\* featureFlags.flagEnabled(tailwindConfig, 'resolveContentRelativeToConfig').
flagEnabled(tailwindConfig) == tailwindConfig.resolveContentRelativeToConfig

\* Mutant of lines 81-84: the flag is not consulted.
resolveRelativePathsIgnoringFlag(ctx, contentPaths) ==
  LET resolveFrom ==
        IF ctx.userConfigPath # Null THEN dirname(ctx.userConfigPath) ELSE Cwd
  IN [i \in 1..Len(contentPaths) |->
        [contentPaths[i] EXCEPT !.base = pathResolve(resolveFrom, contentPaths[i].base)]]

\* Lines 77-93: each base made absolute, from the configuration file's
\* directory when that file is known and the flag is on, else from the cwd.
resolveRelativePaths(ctx, contentPaths) ==
  LET resolveFrom ==
        IF ctx.userConfigPath # Null /\ flagEnabled(ctx.tailwindConfig)
        THEN dirname(ctx.userConfigPath)
        ELSE Cwd
  IN [i \in 1..Len(contentPaths) |->
        [contentPaths[i] EXCEPT !.base = pathResolve(resolveFrom, contentPaths[i].base)]]

\* Mutant of lines 110-114: a spec whose realpath fails is dropped.
resolvePathSymlinksDropping(contentPath) ==
  LET r == realpathSync(contentPath.base)
  IN IF ~r.ok THEN <<>>
     ELSE IF r.path # contentPath.base
     THEN <<contentPath, [contentPath EXCEPT !.base = r.path]>>
     ELSE <<contentPath>>

\* Mutant of line 108: the real-path copy replaces the spec.
resolvePathSymlinksReplacing(contentPath) ==
  LET r == realpathSync(contentPath.base)
  IN IF r.ok /\ r.path # contentPath.base
     THEN <<[contentPath EXCEPT !.base = r.path]>>
     ELSE <<contentPath>>

\* Lines 104-115: the spec, and a copy based at the real path when that
\* differs; a failing realpath is caught.
resolvePathSymlinks(contentPath) ==
  LET r == realpathSync(contentPath.base)
  IN IF r.ok /\ r.path # contentPath.base
     THEN <<contentPath, [contentPath EXCEPT !.base = r.path]>>
     ELSE <<contentPath>>

\* Lines 50-61: the ContentPath of one string entry, before resolution.
initialPaths(filePath) ==
  LET fp == normalizePath(filePath)
  IN IF isGlob(fp)
     THEN <<[original |-> fp, base |-> parseGlob(fp).base, glob |-> parseGlob(fp).glob]>>
     ELSE <<[original |-> fp, base |-> fp, glob |-> Null]>>

\* Lines 46-63: parseContentPath up to and including resolveRelativePaths.
resolvedPaths(ctx, entry) ==
  IF entry.str = Null THEN <<>>
  ELSE resolveRelativePaths(ctx, initialPaths(entry.str))

\* Lines 45-67.
parseContentPath(ctx, entry) ==
  LET paths == resolvedPaths(ctx, entry)
  IN Concat([i \in 1..Len(paths) |-> resolvePathSymlinks(paths[i])])

\* Lines 33-37.
parseCandidateFiles(ctx, tailwindConfig) ==
  LET fl == tailwindConfig.content.files
  IN Concat([i \in 1..Len(fl) |-> parseContentPath(ctx, fl[i])])

\* ----------------------------------------------------------- configurations

\* The path strings configurations are built from:
\*   t/*.css      a glob under a real directory
\*   l\*.css      a glob under the symbolic link, written with a backslash
\*   b.html       a literal path
\*   **/*         a glob from the resolution root down
\*   !**/b.html   an exclusion
\*   x/*          a glob under a directory that does not exist
PathStrings ==
  { <<"t", SLASH, STAR, ".css">>,
    <<"l", BACKSLASH, STAR, ".css">>,
    <<"b", ".html">>,
    <<STAR, STAR, SLASH, STAR>>,
    <<BANG, STAR, STAR, SLASH, "b", ".html">>,
    <<"x", SLASH, STAR>> }

RawEntries == {RawEntry("<div>", "css"), RawEntry("<p>", Undefined)}

EntryPool == {StringEntry(s) : s \in PathStrings} \cup RawEntries

\* A configuration file reached through the symbolic link.
ConfigPath == LinkPath \o <<SLASH, "tw", ".js">>

Context(ucp, flag, entries) ==
  [userConfigPath |-> ucp,
   tailwindConfig |-> [resolveContentRelativeToConfig |-> flag,
                       content |-> [files |-> entries]]]

SeqsUpTo(S, n) == UNION {[1..k -> S] : k \in 0..n}

\* Every context the pipeline is checked on.
AllContexts ==
  {Context(ucp, flag, entries) :
     ucp \in {Null, ConfigPath}, flag \in BOOLEAN, entries \in SeqsUpTo(EntryPool, MaxEntries)}

\* The content.files lists the change tracker is run on.
TrackedFiles ==
  { <<StringEntry(<<"t", SLASH, STAR, ".css">>), StringEntry(<<"b", ".html">>)>>,
    <<RawEntry("<div>", "css"), StringEntry(<<"l", BACKSLASH, STAR, ".css">>),
      RawEntry("<p>", Undefined)>>,
    <<StringEntry(<<STAR, STAR, SLASH, STAR>>),
      StringEntry(<<BANG, STAR, STAR, SLASH, "b", ".html">>)>> }

TrackedContexts == {Context(Null, FALSE, entries) : entries \in TrackedFiles}

\* ------------------------------------------------------- the change tracker

EmptyMap == [p \in {} |-> 0]

\* Mutant of Map.prototype.set: the entries of files gone from disk are dropped.
MapSetPruning(m, k, v) ==
  [p \in {q \in DOMAIN m : CanStat(q)} \cup {k} |-> IF p = k THEN v ELSE m[p]]

\* Map.prototype.set.
MapSet(m, k, v) == [p \in DOMAIN m \cup {k} |-> IF p = k THEN v ELSE m[p]]

Range(s) == {s[i] : i \in 1..Len(s)}

\* Every order in which the glob engine may list a set of files.
Orders(S) == {s \in [1..Cardinality(S) -> S] : \A i, j \in 1..Cardinality(S) : s[i] = s[j] => i = j}

\* Mutant of lines 144-150: an exclusion is given its base and glob like any
\* other spec.
queryPatternFromBase(contentPath) ==
  IF contentPath.glob # Null /\ contentPath.glob # <<>>
  THEN contentPath.base \o <<SLASH>> \o contentPath.glob
  ELSE contentPath.base

\* Lines 144-150: one query pattern per spec.
queryPattern(contentPath) ==
  IF StartsWith(contentPath.original, BANG) THEN contentPath.original
  ELSE IF contentPath.glob # Null /\ contentPath.glob # <<>>
       THEN contentPath.base \o <<SLASH>> \o contentPath.glob
       ELSE contentPath.base

queryPatterns(specs) == [i \in 1..Len(specs) |-> queryPattern(specs[i])]

\* Mutant of lines 124-126: entries without an extension are dropped.
rawContentOnlyWithExtension(tailwindConfig) ==
  LET fl == tailwindConfig.content.files
      One(item) ==
        IF item.raw # Undefined /\ item.extension # Undefined
        THEN <<[content |-> [raw |-> item.raw], extension |-> item.extension]>>
        ELSE <<>>
  IN Concat([i \in 1..Len(fl) |-> One(fl[i])])

\* Lines 124-126: the raw entries, extension defaulting to 'html'.
rawContent(tailwindConfig) ==
  LET fl == tailwindConfig.content.files
      One(item) ==
        IF item.raw # Undefined
        THEN <<[content |-> [raw |-> item.raw],
                extension |-> IF item.extension = Undefined THEN "html" ELSE item.extension]>>
        ELSE <<>>
  IN Concat([i \in 1..Len(fl) |-> One(fl[i])])

\* Mutant of line 154: the files already in the table are visited too.
filesToVisitWithKnown(specs) ==
  fastGlobSync(queryPatterns(specs)) \cup DOMAIN fileModifiedMap

\* Mutant of line 154: of the paths of one underlying file only the real one
\* is visited.
filesToVisitOncePerFile(specs) ==
  LET globbed == fastGlobSync(queryPatterns(specs))
  IN {p \in globbed : realpathSync(p).path = p \/ realpathSync(p).path \notin globbed}

\* Line 154: the files the loop visits.
filesToVisit(specs) == fastGlobSync(queryPatterns(specs))

\* Mutants of line 159: ">=" for ">"; no -Infinity default for a file without
\* an entry (modified > undefined is false); "!==" for ">".
isNewerOrEqual(modified, file) ==
  IF file \in DOMAIN fileModifiedMap THEN modified >= fileModifiedMap[file] ELSE TRUE

isNewerNoDefault(modified, file) ==
  file \in DOMAIN fileModifiedMap /\ modified > fileModifiedMap[file]

isNewerNotEqual(modified, file) ==
  IF file \in DOMAIN fileModifiedMap THEN modified # fileModifiedMap[file] ELSE TRUE

\* Line 159: is the file newer than its watermark (absent: -Infinity)?
isNewer(modified, file) ==
  IF file \in DOMAIN fileModifiedMap THEN modified > fileModifiedMap[file] ELSE TRUE

\* parseCandidateFiles not yet run: resolved holds the specs as
\* resolveRelativePaths returned them, expanded what resolvePathSymlinks
\* returned for each.
NoPipe == [done |-> FALSE, resolved |-> <<>>, expanded |-> <<>>]

\* Line 156: the watermark a table holds for a path, absent being -Infinity.
NegInfinity == -1
Watermark(m, p) == IF p \in DOMAIN m THEN m[p] ELSE NegInfinity

\* Mutant of line 161: the table records the time of the scan, the latest
\* time there is, for the file's timestamp.
watermarkAtScanTime(file, modified) ==
  IF modified > Watermark(fileModifiedMap, file) THEN MapSet(fileModifiedMap, file, MaxTime)
  ELSE fileModifiedMap

\* Mutant of lines 159-162: the table is written outside the if.
watermarkAlwaysSet(file, modified) == MapSet(fileModifiedMap, file, modified)

\* Lines 159-162: the table after the file was visited.
watermarkAfter(file, modified) ==
  IF isNewer(modified, file) THEN MapSet(fileModifiedMap, file, modified)
  ELSE fileModifiedMap

\* Lines 159-160: the Set after the file was visited.
changedAfter(file, modified) ==
  IF isNewer(modified, file) THEN Append(changedFiles, file) ELSE changedFiles

\* What the last call returned or threw; of a call that threw, also where
\* (at) and the files it had put in the Set by then (advanced).
NoReturn == [status |-> "none", files |-> {}, content |-> <<>>, at |-> "", advanced |-> {}]
Returned(fileSet, content) ==
  [status |-> "returned", files |-> fileSet, content |-> content, at |-> "", advanced |-> {}]
Threw ==
  [status |-> "threw", files |-> {}, content |-> <<>>, at |-> pc,
   advanced |-> Range(changedFiles)]

\* What the properties need of the running or last call: the table when it
\* started, what the glob listed, the number of disk changes since it
\* started, (first) whether the call before it started on an empty table,
\* returned, and nothing changed since, and (retry) whether the call before
\* it threw on the one disk change it saw and nothing changed since, with
\* where it threw and the files it had put in the Set. Of the disk: (raised)
\* the paths of the files whose last disk change strictly increased their
\* timestamp, each with whether the new timestamp is above the path's
\* watermark, less the paths put in the Set since; (pending) these paths when
\* the call started; (lowered) whether a disk change since the call started
\* lowered a timestamp or deleted a file.
NoRetry == [valid |-> FALSE, at |-> "", advanced |-> {}]
NoHist ==
  [startMap |-> EmptyMap, globbed |-> {}, races |-> 0, retry |-> NoRetry,
   first |-> [valid |-> FALSE, files |-> {}],
   raised |-> {}, pending |-> {}, lowered |-> FALSE]

\* The raised paths after a disk change gives file f the timestamp t.
RaisedBy(f, t) ==
  {e \in hist.raised : e.file # f} \cup
  IF fs[f] # NoFile /\ t > fs[f]
  THEN {[path |-> p, file |-> f, above |-> t > Watermark(fileModifiedMap, p)] :
          p \in {q \in VisiblePaths : CanStat(q) /\ FileOf(realpathSync(q).path) = f}}
  ELSE {}

Init ==
  /\ fs \in [FileIds -> {NoFile} \cup Times]
  /\ context = Context(Null, FALSE, <<>>)
  /\ candidateFiles = <<>>
  /\ fileModifiedMap = EmptyMap
  /\ pc = "idle"
  /\ files = <<>>
  /\ changedFiles = <<>>
  /\ changedContent = <<>>
  /\ ret = NoReturn
  /\ hist = NoHist
  /\ pipe = NoPipe

\* The caller (re)builds the spec list: parseCandidateFiles on a configuration.
Setup(ctx) ==
  /\ pc = "idle"
  /\ context' = ctx
  /\ candidateFiles' = parseCandidateFiles(ctx, ctx.tailwindConfig)
  /\ LET fl == ctx.tailwindConfig.content.files
         resolved == Concat([i \in 1..Len(fl) |-> resolvedPaths(ctx, fl[i])])
     IN pipe' = [done |-> TRUE, resolved |-> resolved,
                 expanded |-> [i \in 1..Len(resolved) |-> resolvePathSymlinks(resolved[i])]]
  /\ hist' = [NoHist EXCEPT !.raised = hist.raised]
  /\ ret' = NoReturn
  /\ UNCHANGED <<fs, fileModifiedMap, pc, files, changedFiles, changedContent>>

Configure == \E ctx \in TrackedContexts : ctx # context /\ Setup(ctx)

\* resolvedChangedContent is called: it collects the raw entries (lines
\* 124-126) and enters resolveChangedFiles (line 128), which builds the
\* patterns and runs the glob (lines 144-154).
CallResolvedChangedContent ==
  /\ pc = "idle"
  /\ pipe.done
  /\ LET globbed == filesToVisit(candidateFiles)
     IN /\ \E order \in Orders(globbed) : files' = order
        /\ hist' = [startMap |-> fileModifiedMap, globbed |-> globbed, races |-> 0,
                    first |-> IF ret.status = "returned" /\ hist.races = 0
                                 /\ hist.startMap = EmptyMap
                              THEN [valid |-> TRUE, files |-> ret.files]
                              ELSE [valid |-> FALSE, files |-> {}],
                    retry |-> IF ret.status = "threw" /\ hist.races = 1
                              THEN [valid |-> TRUE, at |-> ret.at, advanced |-> ret.advanced]
                              ELSE NoRetry,
                    raised |-> hist.raised, pending |-> hist.raised, lowered |-> FALSE]
  /\ pc' = "stat"
  /\ changedFiles' = <<>>
  /\ changedContent' = rawContent(context.tailwindConfig)
  /\ ret' = NoReturn
  /\ UNCHANGED <<fs, context, candidateFiles, fileModifiedMap, pipe>>

\* Mutant of the exception path: the table is put back as the call found it.
ThrowRollingBack ==
  /\ pc' = "idle"
  /\ ret' = Threw
  /\ files' = <<>>
  /\ changedFiles' = <<>>
  /\ changedContent' = <<>>
  /\ fileModifiedMap' = hist.startMap

\* The call ends by an exception: nothing is returned, the table stays as it is.
Throw ==
  /\ pc' = "idle"
  /\ ret' = Threw
  /\ files' = <<>>
  /\ changedFiles' = <<>>
  /\ changedContent' = <<>>
  /\ UNCHANGED fileModifiedMap

\* Lines 155-163, one iteration.
StatFile ==
  /\ pc = "stat"
  /\ files # <<>>
  /\ LET file == Head(files)
     IN IF ~CanStat(file)
        THEN /\ Throw
             /\ UNCHANGED hist
        ELSE LET modified == mtimeMs(file)
             IN /\ changedFiles' = changedAfter(file, modified)
                /\ fileModifiedMap' = watermarkAfter(file, modified)
                /\ files' = Tail(files)
                /\ hist' = [hist EXCEPT !.raised =
                              IF isNewer(modified, file)
                              THEN {e \in @ : e.path # file} ELSE @]
                /\ UNCHANGED <<pc, ret, changedContent>>
  /\ UNCHANGED <<fs, context, candidateFiles, pipe>>

\* Lines 164-165 and 128: resolveChangedFiles returns the Set, which
\* resolvedChangedContent starts to iterate.
EndStat ==
  /\ pc = "stat"
  /\ files = <<>>
  /\ pc' = "read"
  /\ files' = changedFiles
  /\ UNCHANGED <<fs, context, candidateFiles, fileModifiedMap, changedFiles,
                 changedContent, ret, hist, pipe>>

\* Mutant of lines 128-132: a file that cannot be read is skipped.
ReadFileSkipping ==
  /\ pc = "read"
  /\ files # <<>>
  /\ LET changedFile == Head(files)
     IN /\ changedContent' =
             IF ~CanStat(changedFile) THEN changedContent
             ELSE Append(changedContent, [content |-> readFileSync(changedFile),
                                          extension |-> extnameSlice1(changedFile)])
        /\ files' = Tail(files)
  /\ UNCHANGED <<fs, context, candidateFiles, fileModifiedMap, pc, ret, changedFiles,
                 hist, pipe>>

\* Lines 128-132, one iteration.
ReadFile ==
  /\ pc = "read"
  /\ files # <<>>
  /\ LET changedFile == Head(files)
     IN IF ~CanStat(changedFile)
        THEN Throw
        ELSE /\ changedContent' =
                  Append(changedContent, [content |-> readFileSync(changedFile),
                                          extension |-> extnameSlice1(changedFile)])
             /\ files' = Tail(files)
             /\ UNCHANGED <<pc, ret, changedFiles, fileModifiedMap>>
  /\ UNCHANGED <<fs, context, candidateFiles, hist, pipe>>

\* Line 134.
EndRead ==
  /\ pc = "read"
  /\ files = <<>>
  /\ pc' = "idle"
  /\ ret' = Returned(Range(changedFiles), changedContent)
  /\ changedFiles' = <<>>
  /\ changedContent' = <<>>
  /\ UNCHANGED <<fs, context, candidateFiles, fileModifiedMap, files, hist, pipe>>

\* The file a visited path names, whether it is on disk or not.
NamedBy(p) == p[Len(p) - 1]

\* The world outside: a file is created, rewritten (its timestamp moving
\* forwards or, with a skewed clock, backwards) or deleted, at any moment. A
\* change to a file the running call does not visit commutes with the call's
\* steps, and is taken between calls.
DiskChange(f, t) ==
  /\ fs' = [fs EXCEPT ![f] = t]
  /\ IF pc = "idle"
     THEN hist' = NoHist /\ ret' = NoReturn
     ELSE /\ hist.races < MaxRaces
          /\ \E p \in hist.globbed : NamedBy(p) = f
          /\ hist' = [hist EXCEPT !.races = @ + 1]
          /\ UNCHANGED ret
  /\ UNCHANGED <<context, candidateFiles, fileModifiedMap, pc, files,
                 changedFiles, changedContent, pipe>>

CreateFile == \E f \in FileIds, t \in Times : fs[f] = NoFile /\ DiskChange(f, t)
ModifyFile == \E f \in FileIds, t \in Times : fs[f] \notin {NoFile, t} /\ DiskChange(f, t)
DeleteFile == \E f \in FileIds : fs[f] # NoFile /\ DiskChange(f, NoFile)

Next ==
  \/ Configure
  \/ CallResolvedChangedContent
  \/ StatFile
  \/ EndStat
  \/ ReadFile
  \/ EndRead
  \/ CreateFile
  \/ ModifyFile
  \/ DeleteFile

Spec == Init /\ [][Next]_vars

\* The external writer, its changes of timestamps kept in the history: one
\* spec list, set up on any disk, scanned again and again while files are
\* created, rewritten and deleted.
WriterChange(f, t) ==
  /\ fs' = [fs EXCEPT ![f] = t]
  /\ IF pc = "idle"
     THEN hist' = [NoHist EXCEPT !.raised = RaisedBy(f, t)] /\ ret' = NoReturn
     ELSE /\ hist.races < MaxRaces
          /\ \E p \in hist.globbed : NamedBy(p) = f
          /\ hist' = [hist EXCEPT !.races = @ + 1, !.raised = RaisedBy(f, t),
                                  !.lowered = @ \/ t < fs[f]]
          /\ UNCHANGED ret
  /\ UNCHANGED <<context, candidateFiles, fileModifiedMap, pc, files,
                 changedFiles, changedContent, pipe>>

WriterCreates == \E f \in FileIds, t \in Times : fs[f] = NoFile /\ WriterChange(f, t)
WriterModifies == \E f \in FileIds, t \in Times : fs[f] \notin {NoFile, t} /\ WriterChange(f, t)
WriterDeletes == \E f \in FileIds : fs[f] # NoFile /\ WriterChange(f, NoFile)

InitWriter ==
  /\ fs \in [FileIds -> {NoFile} \cup Times]
  /\ context \in TrackedContexts
  /\ candidateFiles = parseCandidateFiles(context, context.tailwindConfig)
  /\ LET fl == context.tailwindConfig.content.files
         resolved == Concat([i \in 1..Len(fl) |-> resolvedPaths(context, fl[i])])
     IN pipe = [done |-> TRUE, resolved |-> resolved,
                expanded |-> [i \in 1..Len(resolved) |-> resolvePathSymlinks(resolved[i])]]
  /\ fileModifiedMap = EmptyMap
  /\ pc = "idle"
  /\ files = <<>>
  /\ changedFiles = <<>>
  /\ changedContent = <<>>
  /\ ret = NoReturn
  /\ hist = NoHist

NextWriter ==
  \/ CallResolvedChangedContent
  \/ StatFile
  \/ EndStat
  \/ ReadFile
  \/ EndRead
  \/ WriterCreates
  \/ WriterModifies
  \/ WriterDeletes

SpecWriter == InitWriter /\ [][NextWriter]_vars

\* The pipeline alone: any configuration and context, on any disk.
InitParse ==
  /\ fs \in [FileIds -> {NoFile} \cup Times]
  /\ context \in AllContexts
  /\ candidateFiles = <<>>
  /\ fileModifiedMap = EmptyMap
  /\ pc = "idle"
  /\ files = <<>>
  /\ changedFiles = <<>>
  /\ changedContent = <<>>
  /\ ret = NoReturn
  /\ hist = NoHist
  /\ pipe = NoPipe

Parse == ~pipe.done /\ Setup(context)

NextParse == Parse

SpecParse == InitParse /\ [][NextParse]_vars

\* ------------------------------------------------------------- properties

\* resolveChangedFiles has returned in the running or the last call, and
\* the Set it returned.
ScanReturned == pc = "read" \/ (pc = "idle" /\ ret.status = "returned")
ScanResult == IF pc = "read" THEN Range(changedFiles) ELSE ret.files

\* Nothing on disk changed since the call started.
Quiet == hist.races = 0

\* The files on disk that the current spec list matches.
MatchSet == fastGlobSync(queryPatterns(candidateFiles))

\* C1. Idempotence: of two consecutive scans with the same spec list, the
\* first on an empty table and with no disk change from its start on, the first
\* returned every matched file, the second returns nothing and leaves the
\* table as it found it.
C1_Idempotence ==
  (ScanReturned /\ Quiet /\ hist.first.valid) =>
    /\ hist.first.files = MatchSet
    /\ ScanResult = {}
    /\ fileModifiedMap = hist.startMap

C1_Witness ==
  ScanReturned /\ Quiet /\ hist.first.valid /\ Cardinality(hist.first.files) = 2

\* C2. First sight: a scan reports every file the glob listed that had no
\* entry in the table, whatever its timestamp; started on an empty table it
\* reports all the files listed.
C2_FirstSight ==
  ScanReturned =>
    /\ \A p \in hist.globbed : p \notin DOMAIN hist.startMap => p \in ScanResult
    /\ hist.startMap = EmptyMap => ScanResult = hist.globbed

C2_Witness ==
  /\ ScanReturned /\ Quiet
  /\ hist.startMap # EmptyMap
  /\ \E p \in hist.globbed : p \notin DOMAIN hist.startMap /\ mtimeMs(p) = 1

\* C3. Selective detection: when the files listed were all recorded before and
\* only A's timestamp is above its watermark, the scan returns exactly {A},
\* moves A's watermark to A's timestamp and leaves B's where it was.
C3_Selective ==
  (ScanReturned /\ Quiet) =>
    \A A, B \in hist.globbed :
      ( /\ A # B
        /\ hist.globbed \subseteq DOMAIN hist.startMap
        /\ mtimeMs(A) > hist.startMap[A]
        /\ \A p \in hist.globbed \ {A} : mtimeMs(p) <= hist.startMap[p] )
      => /\ ScanResult = {A}
         /\ fileModifiedMap[A] = mtimeMs(A)
         /\ fileModifiedMap[B] = hist.startMap[B]

C3_Witness ==
  /\ ScanReturned /\ Quiet
  /\ \E A, B \in hist.globbed :
       /\ A # B
       /\ hist.globbed \subseteq DOMAIN hist.startMap
       /\ mtimeMs(A) > hist.startMap[A]
       /\ mtimeMs(B) = hist.startMap[B]
       /\ realpathSync(A).path # realpathSync(B).path

\* C4. Transition rule: a scan returns exactly the listed files whose
\* timestamp is strictly above their watermark at its start (no entry:
\* -Infinity), so not a file whose timestamp equals it, and the watermark of
\* each returned file is then that timestamp.
C4_TransitionRule ==
  (ScanReturned /\ Quiet) =>
    /\ ScanResult = {p \in hist.globbed : mtimeMs(p) > Watermark(hist.startMap, p)}
    /\ \A p \in ScanResult : p \in DOMAIN fileModifiedMap /\ fileModifiedMap[p] = mtimeMs(p)

C4_Witness ==
  /\ ScanReturned /\ Quiet
  /\ \E p, q \in hist.globbed :
       /\ p \in DOMAIN hist.startMap /\ mtimeMs(p) = hist.startMap[p]
       /\ q \in DOMAIN hist.startMap /\ mtimeMs(q) > hist.startMap[q]

\* The call has just ended, and the raw entries the configuration declares.
CallReturned == pc = "idle" /\ ret.status = "returned"
CallEnded == pc = "idle" /\ ret.status # "none"
DeclaredRaw == SelectSeq(context.tailwindConfig.content.files, LAMBDA e : e.raw # Undefined)

\* C5. resolvedChangedContent returns every raw entry, in declaration order,
\* ahead of the entries read from files, one of these per changed file; with no
\* changed file the list is the raw entries alone.
C5_RawFirst ==
  CallReturned =>
    LET n == Len(DeclaredRaw)
    IN /\ Len(ret.content) = n + Cardinality(ret.files)
       /\ \A i \in 1..n : ret.content[i].content = [raw |-> DeclaredRaw[i].raw]
       /\ \A i \in (n + 1)..Len(ret.content) : "file" \in DOMAIN ret.content[i].content
       /\ ret.files = {} => Len(ret.content) = n

C5_Witness ==
  /\ CallReturned
  /\ Len(DeclaredRaw) = 2
  /\ DeclaredRaw[2].extension = Undefined
  /\ ret.files # {}

\* C6. Deletion: with no disk change while it runs, a call ends without an
\* error, and a file that has a table entry but is no longer on disk is not
\* in the result and keeps its entry as it was.
C6_Deletion ==
  (CallEnded /\ Quiet) =>
    /\ ret.status = "returned"
    /\ \A p \in DOMAIN hist.startMap :
         ~CanStat(p) => /\ p \notin ret.files
                        /\ p \in DOMAIN fileModifiedMap
                        /\ fileModifiedMap[p] = hist.startMap[p]

C6_Witness ==
  /\ CallReturned /\ Quiet
  /\ \E p \in DOMAIN hist.startMap : ~CanStat(p)
  /\ ret.files # {}

\* C7. No step removes a key of the watermark table.
C7_NeverRemoved == [][DOMAIN fileModifiedMap \subseteq DOMAIN fileModifiedMap']_vars

C7_Witness ==
  /\ CallReturned
  /\ \E p \in DOMAIN fileModifiedMap : ~CanStat(p)
  /\ \E p \in DOMAIN fileModifiedMap : p \notin MatchSet /\ CanStat(p)

\* One iteration of the loop of lines 155-163 that did not throw.
Visited == pc = "stat" /\ pc' = "stat" /\ files # <<>> /\ files' = Tail(files)

\* C8. No step lowers a watermark; visiting a file whose timestamp is at or
\* below its watermark neither reports it nor writes the table.
C8_Monotonic ==
  [][ /\ \A p \in DOMAIN fileModifiedMap :
           p \in DOMAIN fileModifiedMap' /\ fileModifiedMap'[p] >= fileModifiedMap[p]
      /\ ( /\ Visited
           /\ Head(files) \in DOMAIN fileModifiedMap
           /\ mtimeMs(Head(files)) <= fileModifiedMap[Head(files)] )
         => /\ changedFiles' = changedFiles
            /\ fileModifiedMap' = fileModifiedMap ]_vars

C8_Witness ==
  /\ ScanReturned /\ Quiet
  /\ \E p \in hist.globbed :
       /\ p \in DOMAIN hist.startMap
       /\ mtimeMs(p) < hist.startMap[p]
       /\ p \notin ScanResult
       /\ fileModifiedMap[p] = hist.startMap[p]

\* What fs.realpathSync gives for the base of a resolved spec.
RealBase(spec) == realpathSync(spec.base)
IsExclusion(spec) == StartsWith(spec.original, BANG)

\* C9. Symlink expansion: a resolved spec whose base has a real path other
\* than itself expands to two specs, itself and then a copy based at the real
\* path with the same original and glob; one whose real path is its base
\* expands to itself alone.
C9_SymlinkExpansion ==
  pipe.done =>
    \A i \in 1..Len(pipe.resolved) :
      LET spec == pipe.resolved[i]
          out == pipe.expanded[i]
      IN /\ (RealBase(spec).ok /\ RealBase(spec).path # spec.base) =>
              /\ Len(out) = 2
              /\ out[1] = spec
              /\ out[2].base = RealBase(spec).path
              /\ out[2].original = spec.original
              /\ out[2].glob = spec.glob
         /\ (RealBase(spec).ok /\ RealBase(spec).path = spec.base) => out = <<spec>>

C9_Witness ==
  /\ pipe.done
  /\ \E i, j \in 1..Len(pipe.resolved) :
       /\ RealBase(pipe.resolved[i]).ok
       /\ RealBase(pipe.resolved[i]).path # pipe.resolved[i].base
       /\ ~IsExclusion(pipe.resolved[i])
       /\ Len(pipe.expanded[i]) = 2
       /\ RealBase(pipe.resolved[j]).ok
       /\ RealBase(pipe.resolved[j]).path = pipe.resolved[j].base

\* C10. Exclusions are not expanded: a spec whose original starts with "!"
\* is passed through alone, so parseCandidateFiles emits one spec for it.
C10_ExclusionNotExpanded ==
  pipe.done =>
    \A i \in 1..Len(pipe.resolved) :
      IsExclusion(pipe.resolved[i]) => pipe.expanded[i] = <<pipe.resolved[i]>>

\* The string entries of the configuration, in declaration order.
DeclaredStrings == SelectSeq(context.tailwindConfig.content.files, LAMBDA e : e.str # Null)

\* C11. A failing realpath is swallowed: the spec expands to itself alone,
\* parseCandidateFiles still returns, with one resolved spec per string entry
\* and the expansions of all of them, in order.
C11_FailureSwallowed ==
  pipe.done =>
    /\ Len(pipe.resolved) = Len(DeclaredStrings)
    /\ candidateFiles = Concat(pipe.expanded)
    /\ \A i \in 1..Len(pipe.resolved) :
         ~RealBase(pipe.resolved[i]).ok => pipe.expanded[i] = <<pipe.resolved[i]>>

C11_Witness ==
  /\ pipe.done
  /\ Len(pipe.resolved) = 2
  /\ ~RealBase(pipe.resolved[1]).ok
  /\ RealBase(pipe.resolved[2]).ok
  /\ Len(candidateFiles) = 3

\* The directory PathResolver is to resolve from: the configuration file's
\* when that file is known and the option is on, else the working directory.
ExpectedRoot ==
  IF context.userConfigPath = ConfigPath
     /\ context.tailwindConfig.resolveContentRelativeToConfig
  THEN LinkPath
  ELSE Cwd

\* C12. Resolution root: each base is resolved from the configuration file's
\* directory only when the file is known and the option is on, from the
\* working directory in the three other cases; it is absolute afterwards, and
\* original and glob are as parsed.
C12_ResolutionRoot ==
  pipe.done =>
    \A i \in 1..Len(pipe.resolved) :
      LET parsed == initialPaths(DeclaredStrings[i].str)[1]
          spec == pipe.resolved[i]
      IN /\ spec.original = parsed.original
         /\ spec.glob = parsed.glob
         /\ IsAbsolute(spec.base)
         /\ spec.base = IF parsed.base = <<DOT>> THEN ExpectedRoot
                        ELSE ExpectedRoot \o <<SLASH>> \o parsed.base

C12_Witness ==
  /\ pipe.done
  /\ context.userConfigPath = ConfigPath
  /\ ~context.tailwindConfig.resolveContentRelativeToConfig
  /\ Len(pipe.resolved) = 2
  /\ pipe.resolved[1].base = Cwd
  /\ pipe.resolved[2].base = Cwd \o <<SLASH, "t">>

\* C13. Read failure: when the file the loop of lines 128-132 is about to read
\* is gone, the step ends the call by an exception and no list is returned; a
\* call that returns has read every changed file, each once.
C13_ReadFailureFatal ==
  [][ /\ (pc = "read" /\ files # <<>> /\ fs' = fs /\ ~CanStat(Head(files))) =>
            /\ pc' = "idle"
            /\ ret'.status = "threw"
            /\ ret'.content = <<>>
      /\ (pc = "read" /\ pc' = "idle" /\ ret'.status = "returned") =>
            /\ files = <<>>
            /\ Len(ret'.content) = Len(DeclaredRaw) + Len(changedFiles) ]_vars

C13_Witness ==
  /\ pc = "idle"
  /\ ret.status = "threw"
  /\ ret.at = "read"
  /\ Cardinality(ret.advanced) = 2

\* The call that just ended retried one that threw, with no disk change
\* since that one threw and none but the deletion that aborted it during it.
RetryEnded ==
  /\ CallEnded
  /\ Quiet
  /\ hist.retry.valid

\* C14. Aborted scan and retry: the step that throws (a stat or a read of a
\* deleted file) leaves the table as the visits before it made it, every file
\* put in the Set by then keeping its advanced watermark; the next call, with
\* no disk change in between, returns, reports none of these files, leaves
\* their watermarks as they are, and after a read failure reports no file at
\* all, so the content of the files that were to be read is never returned.
C14_AbortedScanRetry ==
  [][ /\ (pc # "idle" /\ pc' = "idle" /\ ret'.status = "threw") =>
            /\ fileModifiedMap' = fileModifiedMap
            /\ ret'.advanced = Range(changedFiles)
            /\ \A p \in ret'.advanced :
                 Watermark(fileModifiedMap', p) > Watermark(hist.startMap, p)
      /\ RetryEnded' =>
            /\ ret'.status = "returned"
            /\ ret'.files \cap hist'.retry.advanced = {}
            /\ \A p \in hist'.retry.advanced :
                 Watermark(fileModifiedMap', p) = Watermark(hist'.startMap, p)
            /\ hist'.retry.at = "read" =>
                 /\ ret'.files = {}
                 /\ \A i \in 1..Len(ret'.content) :
                      "file" \notin DOMAIN ret'.content[i].content ]_vars

C14_Witness ==
  /\ RetryEnded
  /\ ret.status = "returned"
  /\ hist.retry.at = "read"
  /\ Cardinality(hist.retry.advanced) = 2
  /\ Cardinality(hist.globbed) = 1

\* C15. Frame of a scan: when resolveChangedFiles has returned, the table
\* differs from the table the call started on only at the files it returned;
\* the entry of every other path (not matched, matched but not newer, deleted)
\* is as it was, and no step of a call changes the spec list or the
\* configuration.
C15_Frame ==
  [][ /\ ScanReturned' =>
            \A p \in DOMAIN hist'.startMap \cup DOMAIN fileModifiedMap' :
               p \notin ScanResult' =>
                  /\ p \in DOMAIN hist'.startMap
                  /\ p \in DOMAIN fileModifiedMap'
                  /\ fileModifiedMap'[p] = hist'.startMap[p]
      /\ (pc # "idle" \/ pc' # "idle") => UNCHANGED <<candidateFiles, context>> ]_vars

C15_Witness ==
  /\ ScanReturned
  /\ Quiet
  /\ ScanResult # {}
  /\ \E p \in DOMAIN fileModifiedMap : p \notin MatchSet
  /\ \E p \in MatchSet : p \notin ScanResult /\ mtimeMs(p) < fileModifiedMap[p]

\* The files on disk that some exclusion of the spec list suppresses.
Suppressed ==
  {p \in VisiblePaths :
     /\ CanStat(p)
     /\ \E i \in 1..Len(candidateFiles) :
          /\ IsExclusion(candidateFiles[i])
          /\ GlobMatch(Substr(candidateFiles[i].original, 1), p)}

\* C16. Query patterns: the list handed to the glob expansion has one pattern
\* per spec, in spec order: the original of an exclusion, base "/" glob of any
\* other spec with a glob, the base alone of any other spec without one; the
\* visited files are the expansion of that list, and a file an exclusion
\* suppresses is neither reported nor given a table entry by the scan.
C16_QueryPatterns ==
  LET patterns == queryPatterns(candidateFiles)
  IN /\ Len(patterns) = Len(candidateFiles)
     /\ \A i \in 1..Len(candidateFiles) :
          LET spec == candidateFiles[i]
          IN /\ IsExclusion(spec) => patterns[i] = spec.original
             /\ (~IsExclusion(spec) /\ spec.glob # Null /\ spec.glob # <<>>) =>
                  patterns[i] = spec.base \o <<SLASH>> \o spec.glob
             /\ (~IsExclusion(spec) /\ spec.glob = Null) => patterns[i] = spec.base
     /\ (ScanReturned /\ Quiet) =>
          /\ hist.globbed = fastGlobSync(patterns)
          /\ \A p \in Suppressed :
               /\ p \notin ScanResult
               /\ Watermark(fileModifiedMap, p) = Watermark(hist.startMap, p)

C16_Witness ==
  /\ ScanReturned
  /\ Quiet
  /\ ScanResult # {}
  /\ \E p \in Suppressed :
       /\ p \notin DOMAIN fileModifiedMap
       /\ \E i \in 1..Len(candidateFiles) :
            /\ ~IsExclusion(candidateFiles[i])
            /\ GlobMatch(candidateFiles[i].base \o <<SLASH>> \o candidateFiles[i].glob, p)

\* The file on disk a visited path leads to.
Underlying(p) == FileOf(realpathSync(p).path)

\* The resolved specs that are no exclusion and whose base is a symlink to
\* another directory, by their index.
LinkedSpecs ==
  {i \in 1..Len(pipe.resolved) :
     /\ ~IsExclusion(pipe.resolved[i])
     /\ RealBase(pipe.resolved[i]).ok
     /\ RealBase(pipe.resolved[i]).path # pipe.resolved[i].base}

\* The entries of a content list read from a given file.
ReadsOf(content, f) ==
  {i \in 1..Len(content) :
     "file" \in DOMAIN content[i].content /\ content[i].content.file = f}

\* C18. Double reporting: for a non-exclusion spec whose base is a symlink to
\* another directory both the link-based and the real-path-based spec are in
\* the spec list; a file on disk is visited under both path forms, each form
\* is reported by its own watermark alone and gets its own table entry, so a
\* file seen for the first time is in the result under both paths, and the
\* returned content holds one entry per reported path, two for such a file.
C18_DoubleReporting ==
  pipe.done =>
    \A i \in LinkedSpecs :
      LET link == pipe.expanded[i][1]
          real == pipe.expanded[i][2]
          viaLink == fastGlobSync(<<queryPattern(link)>>)
          viaReal == fastGlobSync(<<queryPattern(real)>>)
      IN /\ Len(pipe.expanded[i]) = 2
         /\ \E j \in 1..Len(candidateFiles) :
              j < Len(candidateFiles) /\ candidateFiles[j] = link /\ candidateFiles[j + 1] = real
         /\ (ScanReturned /\ Quiet) =>
              \A p \in viaLink, q \in viaReal :
                 (Underlying(p) = Underlying(q)) =>
                    /\ p # q
                    /\ {p, q} \subseteq hist.globbed
                    /\ \A x \in {p, q} :
                         /\ x \in ScanResult <=> mtimeMs(x) > Watermark(hist.startMap, x)
                         /\ x \in ScanResult => fileModifiedMap[x] = mtimeMs(x)
                         /\ x \notin ScanResult =>
                              Watermark(fileModifiedMap, x) = Watermark(hist.startMap, x)
                    /\ ({p, q} \cap DOMAIN hist.startMap = {}) => {p, q} \subseteq ScanResult
                    /\ CallReturned =>
                         Cardinality(ReadsOf(ret.content, Underlying(p))) =
                           Cardinality({x \in ret.files : Underlying(x) = Underlying(p)})

C18_Witness ==
  /\ pipe.done
  /\ LinkedSpecs # {}
  /\ CallReturned
  /\ Quiet
  /\ \E p, q \in ret.files :
       /\ p # q
       /\ Underlying(p) = Underlying(q)
       /\ Cardinality(ReadsOf(ret.content, Underlying(p))) = 2
       /\ fileModifiedMap[p] = fileModifiedMap[q]

\* The entries read from files that a call has collected so far, by their
\* position in the Set.
Delivered ==
  LET n == Len(DeclaredRaw)
  IN [k \in 1..(Len(changedContent) - n) |-> changedContent[n + k].content]

====
